---- MODULE Spec2Model ----
(***************************************************************************)
(* A model of the frontier data structures (progress/frontier.rs:          *)
(* Antichain, MutableAntichain) and of the worker bootstrap                *)
(* (communication/src/initialize.rs: initialize_from, WorkerGuards).       *)
(*                                                                         *)
(* Three specifications share the module:                                  *)
(*   SpecAntichain  an Antichain<T> under new/from_elem/insert/clear/sort  *)
(*   SpecMutable    a MutableAntichain<T> under its public operations      *)
(*   SpecWorkers    initialize_from followed by WorkerGuards::join or drop *)
(* The timestamp type T is a type parameter; a behaviour fixes it (ty) to  *)
(* u64 with its usual order, or to a pair of bits under the product order. *)
(***************************************************************************)
EXTENDS Integers, Sequences, FiniteSets, TLC

VARIABLES
    ty,             \* the type parameter T: "u64" or "pair"
    \* ---- Antichain<T>
    elements,       \* Antichain::elements : Vec<T>
    aLast,          \* the last Antichain operation
    aPrev,          \* elements before the last insert
    aElem,          \* the argument of the last insert
    aRet,           \* the value the last insert returned
    s1,             \* scenario monitor: per-step records of the inserts so far,
                    \* kept while they follow S1Script from an empty antichain
    s1on,           \* whether the inserts so far follow S1Script
    inserted,       \* history monitor: the values inserted since the antichain
                    \* was last empty by new() or clear(), kept while they
                    \* are at most MaxInserted distinct values
    tracking,       \* whether the history monitor still follows the inserts
    \* ---- MutableAntichain<T>
    dirty,          \* MutableAntichain::dirty : usize
    updates,        \* MutableAntichain::updates : Vec<(T, i64)>
    frontier,       \* MutableAntichain::frontier : Vec<T>
    frontier_temp,  \* MutableAntichain::frontier_temp : Vec<T>
    mLast,          \* the last MutableAntichain operation
    mPre,           \* frontier before the last update_iter_and
    mActs,          \* the action callbacks of the last update_iter_and, in order
    mRebuilt,       \* whether the last update_iter_and rebuilt
    mPending,       \* an update_dirty / empty() on non-empty updates is pending
    \* ---- initialize_from / WorkerGuards
    config,         \* the Configuration given to initialize, or "Builders" when
                    \* initialize_from is called with builders of the caller's
    nBuilders,      \* builders.len()
    pc,             \* where the calling thread is
    idx,            \* the loop index of the calling thread (spawn, join, drop)
    worker,         \* per worker thread: its state
    retval,         \* per worker thread: the value its closure returned
    handle,         \* per worker thread: what became of its JoinHandle
    others,         \* the background guard: "none", "held" or "released"
    results,        \* the Vec<Result<T,String>> join has collected
    path,           \* which exit path the WorkerGuards took: "none", "join", "drop"
    proc,           \* the process: "alive" or "aborted"
    spawned,        \* the builders a thread was spawned for, in spawn order
    built,          \* per builder: the threads on which its build() has run
    invoked,        \* per builder: the threads on which the closure was called
                    \* with the allocator this builder built
    error,          \* the Err(String) the calling thread returned, or "none"
    \* ---- Configuration::from_args
    args,           \* the command line given to from_args
    parsed          \* what from_args did with it

aVars == <<elements, aLast, aPrev, aElem, aRet, s1, s1on, inserted, tracking>>
mVars == <<dirty, updates, frontier, frontier_temp, mLast, mPre, mActs, mRebuilt, mPending>>
wVars == <<config, nBuilders, pc, idx, worker, retval, handle, others, results, path, proc,
           spawned, built, invoked, error>>
fVars == <<args, parsed>>
vars == <<ty, aVars, mVars, wVars, fVars>>

----------------------------------------------------------------------------
(* Bounds *)

\* Antichain<u64> holds values 0..MaxElem
MaxElem == 5
\* Antichain<(u64, u64)> holds pairs with coordinates 0..MaxCoord
MaxCoord == 2
\* MutableAntichain<u64> holds timestamps 0..MaxStamp
MaxStamp == 1
\* updates never grows beyond MaxUpdates entries in the model
MaxUpdates == 3
\* no timestamp's count leaves -MaxCount..MaxCount in the model
MaxCount == 2
\* at most MaxWorkers builders are passed to initialize_from
MaxWorkers == 3
\* the numbers given to -w, -p and -n are 0..MaxArg
MaxArg == 2
\* the hostfile has at most MaxLines lines
MaxLines == 3
\* the history monitor of Antichain follows up to MaxInserted distinct values
MaxInserted == 4

----------------------------------------------------------------------------
(* Timestamps and their orders *)

Types == {"u64", "pair"}

\* T = (u64, u64) with both coordinates in 0..n
Pairs(n) == (0..n) \X (0..n)

\* PartialOrder::less_equal: <= on u64, component-wise <= on pairs
less_equal(a, b) ==
    IF ty = "u64" THEN a <= b ELSE a[1] <= b[1] /\ a[2] <= b[2]

\* PartialOrder::less_than
less_than(a, b) == less_equal(a, b) /\ a # b

\* Ord::cmp(a, b) != Greater: <= on u64, lexicographic on pairs
ord_le(a, b) ==
    IF ty = "u64" THEN a <= b ELSE a[1] < b[1] \/ (a[1] = b[1] /\ a[2] <= b[2])

Range(s) == {s[i] : i \in 1..Len(s)}

\* slice::sort on Vec<T>: a stable sort by Ord, as an insertion sort
RECURSIVE InsertSorted(_, _)
InsertSorted(s, x) ==
    IF s = <<>> THEN <<x>>
    ELSE IF ord_le(s[Len(s)], x) THEN Append(s, x)
    ELSE Append(InsertSorted(SubSeq(s, 1, Len(s) - 1), x), s[Len(s)])

RECURSIVE Sort(_)
Sort(s) ==
    IF s = <<>> THEN <<>>
    ELSE InsertSorted(Sort(SubSeq(s, 1, Len(s) - 1)), s[Len(s)])

----------------------------------------------------------------------------
(* Antichain<T> *)

\* the values an Antichain<T> of the model is given
Elems == IF ty = "u64" THEN 0..MaxElem ELSE Pairs(MaxCoord)

\* a plausible slip: the dominated elements are not evicted
insert_no_evict(els, e) ==
    IF ~(\E x \in Range(els) : less_equal(x, e))
    THEN [elements |-> Append(els, e), ret |-> TRUE]
    ELSE [elements |-> els, ret |-> FALSE]

\* a plausible slip: the test is strict, so an equal element is stored again
insert_strict(els, e) ==
    IF ~(\E x \in Range(els) : less_than(x, e))
    THEN [elements |-> Append(SelectSeq(els, LAMBDA x : ~less_equal(e, x)), e),
          ret |-> TRUE]
    ELSE [elements |-> els, ret |-> FALSE]

\* Antichain::insert: the new elements and the returned bool
insert(els, e) ==
    IF ~(\E x \in Range(els) : less_equal(x, e))
    THEN [elements |-> Append(SelectSeq(els, LAMBDA x : ~less_equal(e, x)), e),
          ret |-> TRUE]
    ELSE [elements |-> els, ret |-> FALSE]

\* Antichain::less_equal: some stored element is less_equal to time
elements_less_equal(els, time) == (\E x \in Range(els) : less_equal(x, time))

\* Scenario S1 of the specification: the values inserted, in order
S1Script == <<3, 1, 2, 5, 4>>

\* the monitor's next value when e is inserted giving r
S1Step(e, r) ==
    IF s1on /\ ty = "u64" /\ Len(s1) < Len(S1Script) /\ S1Script[Len(s1) + 1] = e
    THEN [on |-> TRUE, log |-> Append(s1, [ret |-> r.ret, after |-> Range(r.elements)])]
    ELSE [on |-> FALSE, log |-> <<>>]

\* the history monitor's next value when e is inserted
InsertedStep(e) ==
    IF tracking /\ Cardinality(inserted \cup {e}) <= MaxInserted
    THEN [on |-> TRUE, vals |-> inserted \cup {e}]
    ELSE [on |-> FALSE, vals |-> {}]

AInitGhost ==
    /\ aPrev = <<>>
    /\ aElem = 0
    /\ aRet = FALSE
    /\ s1 = <<>>
    /\ inserted = {}

\* Antichain::new
ANew ==
    /\ elements = <<>>
    /\ aLast = "new"
    /\ s1on = TRUE
    /\ tracking = TRUE
    /\ AInitGhost

\* Antichain::from_elem
AFromElem ==
    /\ \E e \in Elems : elements = <<e>>
    /\ aLast = "from_elem"
    /\ s1on = FALSE
    /\ tracking = FALSE
    /\ AInitGhost

AInsert ==
    \E e \in Elems :
        LET r == insert(elements, e)
            m == S1Step(e, r)
            h == InsertedStep(e)
        IN  /\ elements' = r.elements
            /\ inserted' = h.vals
            /\ tracking' = h.on
            /\ aLast' = "insert"
            /\ aPrev' = elements
            /\ aElem' = e
            /\ aRet' = r.ret
            /\ s1' = m.log
            /\ s1on' = m.on
            /\ UNCHANGED <<ty, fVars, mVars, wVars>>

\* Antichain::clear
AClear ==
    /\ elements' = <<>>
    /\ aLast' = "clear"
    /\ aPrev' = <<>>
    /\ aElem' = 0
    /\ aRet' = FALSE
    /\ s1' = <<>>
    /\ s1on' = TRUE
    /\ inserted' = {}
    /\ tracking' = TRUE
    /\ UNCHANGED <<ty, fVars, mVars, wVars>>

\* Antichain::sort
ASort ==
    /\ elements' = Sort(elements)
    /\ aLast' = "sort"
    /\ aPrev' = <<>>
    /\ aElem' = 0
    /\ aRet' = FALSE
    /\ UNCHANGED <<s1, s1on, inserted, tracking>>
    /\ UNCHANGED <<ty, fVars, mVars, wVars>>

----------------------------------------------------------------------------
(* MutableAntichain<T> *)

\* the timestamps a MutableAntichain<T> of the model is given: 0..MaxStamp, or
\* the four pairs over {0, 1}, a diamond under the product order
StampsOf(t) == IF t = "u64" THEN 0..MaxStamp ELSE Pairs(1)

Stamps == StampsOf(ty)

\* the deltas of the model's updates
Deltas == {-1, 1}

\* an entry (T, i64) of updates
Entries == Stamps \X Deltas

\* the sequences of at most n elements of S
RECURSIVE SeqsUpTo(_, _)
SeqsUpTo(S, n) ==
    IF n = 0 THEN {<<>>}
    ELSE LET shorter == SeqsUpTo(S, n - 1)
         IN  shorter \cup {Append(q, x) : q \in {r \in shorter : Len(r) = n - 1}, x \in S}

\* per type and length n, the batches of at most n entries
BatchTable ==
    [t \in Types |-> [n \in 0..MaxUpdates |-> SeqsUpTo(StampsOf(t) \X Deltas, n)]]

\* the batches update_iter / update_iter_and are given: those that updates has
\* room for
Batches == BatchTable[ty][MaxUpdates - Len(updates)]

\* the MutableAntichain as a value
Self == [dirty |-> dirty, updates |-> updates, frontier |-> frontier,
         frontier_temp |-> frontier_temp]

\* MutableAntichain::new
new == [dirty |-> 0, updates |-> <<>>, frontier |-> <<>>, frontier_temp |-> <<>>]

\* MutableAntichain::new_bottom
new_bottom(bottom) ==
    [dirty |-> 0, updates |-> <<<<bottom, 1>>>>, frontier |-> <<bottom>>,
     frontier_temp |-> <<>>]

\* a plausible slip: clear forgets the frontier
clear_keeps_frontier(m) ==
    [dirty |-> 0, updates |-> <<>>, frontier |-> m.frontier, frontier_temp |-> <<>>]

\* a plausible slip: clear leaves dirty as it is
clear_keeps_dirty(m) ==
    [dirty |-> m.dirty, updates |-> <<>>, frontier |-> <<>>, frontier_temp |-> <<>>]

\* MutableAntichain::clear
clear(m) == [dirty |-> 0, updates |-> <<>>, frontier |-> <<>>, frontier_temp |-> <<>>]

\* a plausible slip: the deltas are zeroed but dirty is not set
empty_not_dirty(m) ==
    [m EXCEPT !.updates = [i \in 1..Len(m.updates) |-> <<m.updates[i][1], 0>>]]

\* MutableAntichain::empty
empty(m) ==
    [m EXCEPT !.updates = [i \in 1..Len(m.updates) |-> <<m.updates[i][1], 0>>],
              !.dirty = Len(m.updates)]

\* a plausible slip: the entry is appended but dirty is not incremented
update_dirty_not_counted(m, time, delta) ==
    [m EXCEPT !.updates = Append(m.updates, <<time, delta>>)]

\* MutableAntichain::update_dirty
update_dirty(m, time, delta) ==
    [m EXCEPT !.updates = Append(m.updates, <<time, delta>>),
              !.dirty = m.dirty + 1]

\* MutableAntichain::count_for
RECURSIVE SumDeltas(_, _)
SumDeltas(u, q) ==
    IF u = <<>> THEN 0
    ELSE (IF Head(u)[1] = q THEN Head(u)[2] ELSE 0) + SumDeltas(Tail(u), q)

count_for(m, query_time) == SumDeltas(m.updates, query_time)

\* the debug_assert_eq!(self.dirty, 0) of frontier, is_empty, less_than, less_equal
debug_assert_fails(m) == m.dirty # 0

\* MutableAntichain::is_empty
is_empty(m) == m.frontier = <<>>

\* a plausible slip: less_than answers as less_equal does
frontier_less_than_nonstrict(m, time) == (\E x \in Range(m.frontier) : less_equal(x, time))

\* MutableAntichain::less_than, through AntichainRef::less_than
frontier_less_than(m, time) == (\E x \in Range(m.frontier) : less_than(x, time))

\* MutableAntichain::less_equal, through AntichainRef::less_equal
frontier_less_equal(m, time) == (\E x \in Range(m.frontier) : less_equal(x, time))

\* a plausible slip: an entry before the frontier is ignored whatever its sign
ignorable_any_sign(f, time, delta) ==
    LET beyond_frontier == (\E x \in Range(f) : less_than(x, time))
        before_frontier == ~(\E x \in Range(f) : less_equal(x, time))
    IN  beyond_frontier \/ before_frontier

\* update_iter_and: whether the entry (time, delta) cannot change frontier f
ignorable(f, time, delta) ==
    LET beyond_frontier == (\E x \in Range(f) : less_than(x, time))
        before_frontier == ~(\E x \in Range(f) : less_equal(x, time))
    IN  beyond_frontier \/ (delta < 0 /\ before_frontier)

\* a plausible slip: only the newest entry is examined
scan_newest_only(u, f, d) ==
    IF d = 0 THEN FALSE
    ELSE ~ignorable(f, u[Len(u)][1], u[Len(u)][2])

\* update_iter_and: the while loop over the dirty suffix, oldest entry first;
\* the value is rebuild_required when the loop ends
RECURSIVE scan(_, _, _)
scan(u, f, d) ==
    IF d = 0 THEN FALSE
    ELSE LET e == u[Len(u) - d + 1]
         IN  IF ~ignorable(f, e[1], e[2]) THEN TRUE ELSE scan(u, f, d - 1)

\* slice::sort_by on updates: a stable sort by the timestamp's Ord
RECURSIVE InsertByTime(_, _)
InsertByTime(s, x) ==
    IF s = <<>> THEN <<x>>
    ELSE IF ord_le(s[Len(s)][1], x[1]) THEN Append(s, x)
    ELSE Append(InsertByTime(SubSeq(s, 1, Len(s) - 1), x), s[Len(s)])

RECURSIVE SortByTime(_)
SortByTime(s) ==
    IF s = <<>> THEN <<>>
    ELSE InsertByTime(SortByTime(SubSeq(s, 1, Len(s) - 1)), s[Len(s)])

\* a plausible slip: the folded entry keeps its delta
RECURSIVE fold_keeps_absorbed(_, _)
fold_keeps_absorbed(u, i) ==
    IF i >= Len(u) THEN u
    ELSE IF u[i][1] = u[i + 1][1]
         THEN fold_keeps_absorbed([u EXCEPT ![i + 1] = <<u[i + 1][1], u[i + 1][2] + u[i][2]>>],
                                  i + 1)
         ELSE fold_keeps_absorbed(u, i + 1)

\* rebuild_and: for i in 0 .. len - 1, fold entry i into an equal-time entry i + 1
RECURSIVE fold(_, _)
fold(u, i) ==
    IF i >= Len(u) THEN u
    ELSE IF u[i][1] = u[i + 1][1]
         THEN fold([u EXCEPT ![i + 1] = <<u[i + 1][1], u[i + 1][2] + u[i][2]>>,
                             ![i] = <<u[i][1], 0>>], i + 1)
         ELSE fold(u, i + 1)

\* rebuild_and: sort and consolidate updates; retain non-zero accumulations
consolidate(u) ==
    IF u # <<>>
    THEN SelectSeq(fold(SortByTime(u), 1), LAMBDA x : x[2] # 0)
    ELSE u

\* a plausible slip: a new frontier element is put in front
RECURSIVE build_prepends(_, _)
build_prepends(u, ft) ==
    IF u = <<>> THEN ft
    ELSE LET time == Head(u)
         IN  IF time[2] > 0 /\ ~(\E f \in Range(ft) : less_equal(f, time[1]))
             THEN build_prepends(Tail(u), <<time[1]>> \o ft)
             ELSE build_prepends(Tail(u), ft)

\* rebuild_and: push the positive times no pushed time is less_equal to
RECURSIVE build(_, _)
build(u, ft) ==
    IF u = <<>> THEN ft
    ELSE LET time == Head(u)
         IN  IF time[2] > 0 /\ ~(\E f \in Range(ft) : less_equal(f, time[1]))
             THEN build(Tail(u), Append(ft, time[1]))
             ELSE build(Tail(u), ft)

\* a plausible slip: every element of the old frontier is reported removed
changes_unfiltered(of, other, diff) ==
    [i \in 1..Len(of) |-> <<of[i], diff>>]

\* rebuild_and: action(time, diff) for each time of `of` that `other` lacks
changes(of, other, diff) ==
    LET kept == SelectSeq(of, LAMBDA time : time \notin Range(other))
    IN  [i \in 1..Len(kept) |-> <<kept[i], diff>>]

\* a plausible slip: the additions are reported before the removals
rebuild_and_additions_first(m) ==
    LET u == consolidate(m.updates)
        ft == build(u, m.frontier_temp)
    IN  [m |-> [dirty |-> m.dirty, updates |-> u, frontier |-> ft,
                frontier_temp |-> <<>>],
         acts |-> changes(ft, m.frontier, 1) \o changes(m.frontier, ft, -1)]

\* MutableAntichain::rebuild_and: the new value and the callbacks made, in order
rebuild_and(m) ==
    LET u == consolidate(m.updates)
        ft == build(u, m.frontier_temp)
    IN  [m |-> [dirty |-> m.dirty, updates |-> u, frontier |-> ft,
                frontier_temp |-> <<>>],
         acts |-> changes(m.frontier, ft, -1) \o changes(ft, m.frontier, 1)]

\* a plausible slip: updates is consolidated whether or not a rebuild is needed
update_iter_and_consolidating(m, batch) ==
    LET u == m.updates \o batch
        d == m.dirty + Len(batch)
        rebuild_required == scan(u, m.frontier, d)
        pushed == [m EXCEPT !.updates = u, !.dirty = 0]
    IN  IF rebuild_required
        THEN LET r == rebuild_and(pushed)
             IN  [m |-> r.m, acts |-> r.acts, rebuilt |-> TRUE]
        ELSE [m |-> [pushed EXCEPT !.updates = consolidate(u)], acts |-> <<>>,
              rebuilt |-> FALSE]

\* MutableAntichain::update_iter_and: the new value, the callbacks made, and
\* whether rebuild_and ran
update_iter_and(m, batch) ==
    LET u == m.updates \o batch
        d == m.dirty + Len(batch)
        rebuild_required == scan(u, m.frontier, d)
        pushed == [m EXCEPT !.updates = u, !.dirty = 0]
    IN  IF rebuild_required
        THEN LET r == rebuild_and(pushed)
             IN  [m |-> r.m, acts |-> r.acts, rebuilt |-> TRUE]
        ELSE [m |-> pushed, acts |-> <<>>, rebuilt |-> FALSE]

\* the model follows the value m only while every count stays within MaxCount
Bounded(m) ==
    /\ Len(m.updates) <= MaxUpdates
    /\ \A t \in Stamps : count_for(m, t) \in -MaxCount..MaxCount

\* MutableAntichain::update_iter: update_iter_and with an action that does nothing
update_iter(m, batch) == update_iter_and(m, batch).m

\* the state becomes the value m
Becomes(m) ==
    /\ Bounded(m)
    /\ dirty' = m.dirty
    /\ updates' = m.updates
    /\ frontier' = m.frontier
    /\ frontier_temp' = m.frontier_temp

\* the state is constructed as the value m
Starts(m) ==
    /\ dirty = m.dirty
    /\ updates = m.updates
    /\ frontier = m.frontier
    /\ frontier_temp = m.frontier_temp

MInitGhost ==
    /\ mPre = <<>>
    /\ mActs = <<>>
    /\ mRebuilt = FALSE
    /\ mPending = FALSE

MNew ==
    /\ Starts(new)
    /\ mLast = "new"
    /\ MInitGhost

MNewBottom ==
    /\ \E bottom \in Stamps : Starts(new_bottom(bottom))
    /\ mLast = "new_bottom"
    /\ MInitGhost

MClear ==
    /\ Becomes(clear(Self))
    /\ mLast' = "clear"
    /\ mPre' = <<>>
    /\ mActs' = <<>>
    /\ mRebuilt' = FALSE
    /\ mPending' = FALSE
    /\ UNCHANGED <<ty, fVars, aVars, wVars>>

MEmpty ==
    /\ Becomes(empty(Self))
    /\ mLast' = "empty"
    /\ mPre' = <<>>
    /\ mActs' = <<>>
    /\ mRebuilt' = FALSE
    /\ mPending' = (mPending \/ updates # <<>>)
    /\ UNCHANGED <<ty, fVars, aVars, wVars>>

MUpdateDirty ==
    /\ \E e \in Entries : Becomes(update_dirty(Self, e[1], e[2]))
    /\ mLast' = "update_dirty"
    /\ mPre' = <<>>
    /\ mActs' = <<>>
    /\ mRebuilt' = FALSE
    /\ mPending' = TRUE
    /\ UNCHANGED <<ty, fVars, aVars, wVars>>

\* update_iter_and (and update_iter, which is update_iter_and with an action
\* that does nothing, so it reaches the same states)
MUpdateIterAnd ==
    \E batch \in Batches :
        LET r == update_iter_and(Self, batch)
        IN  /\ Becomes(r.m)
            /\ mLast' = "update_iter_and"
            /\ mPre' = frontier
            /\ mActs' = r.acts
            /\ mRebuilt' = r.rebuilt
            /\ mPending' = FALSE
            /\ UNCHANGED <<ty, fVars, aVars, wVars>>

----------------------------------------------------------------------------
(* initialize, initialize_from and WorkerGuards *)

\* the values a worker's closure may return
Values == {"a", "b"}

Workers == 1..nBuilders

\* a worker thread that was spawned and has not ended
Live(i) == worker[i] \in {"building", "running"}

\* a worker thread that has ended, by returning or by panicking
Finished(i) == worker[i] \in {"returned", "panicked"}

\* dropping the JoinHandles that are still held detaches their threads
DropHandles == [i \in Workers |-> IF handle[i] = "held" THEN "detached" ELSE handle[i]]

\* the thread that runs the closure given to spawn for builder i: the newly
\* spawned one, named "worker thread {index}"; the caller is <<"main", 0>>
ThreadOf(i) == <<"worker thread", i - 1>>

\* Err("failed to initialize networking".to_owned())
NetworkingError == "failed to initialize networking"

\* the io::Error of a failed spawn, formatted with {:?}
SpawnError == "io::Error"

\* a create_allocators whose error is not propagated by try!
WCreateFail_continues ==
    /\ pc = "create"
    /\ config = "Cluster"
    /\ pc' = "spawn"
    /\ error' = NetworkingError
    /\ UNCHANGED <<config, nBuilders, idx, worker, retval, handle, others, results, path, proc>>
    /\ UNCHANGED <<spawned, built, invoked>>
    /\ UNCHANGED <<ty, fVars, aVars, mVars>>

\* an initialize_from that calls builder.build() before spawning the thread
WSpawn_builds_on_caller ==
    /\ pc = "spawn"
    /\ idx <= nBuilders
    /\ built' = [built EXCEPT ![idx] = Append(@, <<"main", 0>>)]
    /\ worker' = [worker EXCEPT ![idx] = "building"]
    /\ handle' = [handle EXCEPT ![idx] = "held"]
    /\ spawned' = Append(spawned, idx)
    /\ idx' = idx + 1
    /\ UNCHANGED <<config, nBuilders, pc, retval, others, results, path, proc>>
    /\ UNCHANGED <<invoked, error>>
    /\ UNCHANGED <<ty, fVars, aVars, mVars>>

\* create_allocators succeeds: the builders and the background guard exist
WCreate ==
    /\ pc = "create"
    /\ pc' = "spawn"
    /\ others' = "held"
    /\ UNCHANGED <<config, nBuilders, idx, worker, retval, handle, results, path, proc>>
    /\ UNCHANGED <<spawned, built, invoked, error>>
    /\ UNCHANGED <<ty, fVars, aVars, mVars>>

\* create_allocators: initialize_networking fails, and try! returns the error
WCreateFail ==
    /\ pc = "create"
    /\ config = "Cluster"
    /\ pc' = "failed"
    /\ error' = NetworkingError
    /\ UNCHANGED <<config, nBuilders, idx, worker, retval, handle, others, results, path, proc>>
    /\ UNCHANGED <<spawned, built, invoked>>
    /\ UNCHANGED <<ty, fVars, aVars, mVars>>

\* initialize_from: thread::Builder::spawn succeeds for the next builder
WSpawn ==
    /\ pc = "spawn"
    /\ idx <= nBuilders
    /\ worker' = [worker EXCEPT ![idx] = "building"]
    /\ handle' = [handle EXCEPT ![idx] = "held"]
    /\ spawned' = Append(spawned, idx)
    /\ idx' = idx + 1
    /\ UNCHANGED <<config, nBuilders, pc, retval, others, results, path, proc>>
    /\ UNCHANGED <<built, invoked, error>>
    /\ UNCHANGED <<ty, fVars, aVars, mVars>>

\* initialize_from: spawn fails and try! returns the error; the function's
\* locals are dropped: guards (its JoinHandles detach) and others
WSpawnFail ==
    /\ pc = "spawn"
    /\ idx <= nBuilders
    /\ pc' = "failed"
    /\ handle' = DropHandles
    /\ others' = "released"
    /\ error' = SpawnError
    /\ UNCHANGED <<config, nBuilders, idx, worker, retval, results, path, proc>>
    /\ UNCHANGED <<spawned, built, invoked>>
    /\ UNCHANGED <<ty, fVars, aVars, mVars>>

\* initialize_from: Ok(WorkerGuards { guards, others })
WSpawnDone ==
    /\ pc = "spawn"
    /\ idx > nBuilders
    /\ pc' = "guards"
    /\ UNCHANGED <<config, nBuilders, idx, worker, retval, handle, others, results, path, proc>>
    /\ UNCHANGED <<spawned, built, invoked, error>>
    /\ UNCHANGED <<ty, fVars, aVars, mVars>>

\* the worker thread: builder.build() returns and the closure is called
WBuild ==
    \E i \in Workers :
        /\ proc = "alive"
        /\ worker[i] = "building"
        /\ worker' = [worker EXCEPT ![i] = "running"]
        /\ built' = [built EXCEPT ![i] = Append(@, ThreadOf(i))]
        /\ invoked' = [invoked EXCEPT ![i] = Append(@, ThreadOf(i))]
        /\ UNCHANGED <<config, nBuilders, pc, idx, retval, handle, others, results, path, proc>>
        /\ UNCHANGED <<spawned, error>>
        /\ UNCHANGED <<ty, fVars, aVars, mVars>>

\* the worker thread: the closure returns a value and the thread ends
WReturn ==
    \E i \in Workers, v \in Values :
        /\ proc = "alive"
        /\ worker[i] = "running"
        /\ worker' = [worker EXCEPT ![i] = "returned"]
        /\ retval' = [retval EXCEPT ![i] = v]
        /\ UNCHANGED <<config, nBuilders, pc, idx, handle, others, results, path, proc>>
        /\ UNCHANGED <<spawned, built, invoked, error>>
        /\ UNCHANGED <<ty, fVars, aVars, mVars>>

\* the worker thread panics, in build() or in the closure
WPanic ==
    \E i \in Workers :
        /\ proc = "alive"
        /\ Live(i)
        /\ worker' = [worker EXCEPT ![i] = "panicked"]
        /\ UNCHANGED <<config, nBuilders, pc, idx, retval, handle, others, results, path, proc>>
        /\ UNCHANGED <<spawned, built, invoked, error>>
        /\ UNCHANGED <<ty, fVars, aVars, mVars>>

\* the caller calls WorkerGuards::join
WJoinCall ==
    /\ pc = "guards"
    /\ pc' = "join"
    /\ idx' = 1
    /\ path' = "join"
    /\ UNCHANGED <<config, nBuilders, worker, retval, handle, others, results, proc>>
    /\ UNCHANGED <<spawned, built, invoked, error>>
    /\ UNCHANGED <<ty, fVars, aVars, mVars>>

\* a plausible slip: join gives up at the first worker that panicked, as a
\* `?` or an expect on guard.join() would
WJoinStep_stops_on_panic ==
    /\ pc = "join"
    /\ idx <= nBuilders
    /\ Finished(idx)
    /\ IF worker[idx] = "returned"
       THEN /\ results' = Append(results, <<"Ok", retval[idx]>>)
            /\ handle' = [handle EXCEPT ![idx] = "joined"]
            /\ idx' = idx + 1
            /\ UNCHANGED <<pc, others>>
       ELSE /\ results' = Append(results, <<"Err">>)
            /\ handle' = [i \in Workers |->
                             IF i = idx THEN "joined" ELSE DropHandles[i]]
            /\ others' = "released"
            /\ pc' = "done"
            /\ UNCHANGED idx
    /\ UNCHANGED <<config, nBuilders, worker, retval, path, proc>>
    /\ UNCHANGED <<spawned, built, invoked, error>>
    /\ UNCHANGED <<ty, fVars, aVars, mVars>>

\* WorkerGuards::join: guard.join() on the next drained handle blocks until
\* that thread has ended; a panic becomes Err(String)
WJoinStep ==
    /\ pc = "join"
    /\ idx <= nBuilders
    /\ Finished(idx)
    /\ results' = Append(results, IF worker[idx] = "returned"
                                  THEN <<"Ok", retval[idx]>>
                                  ELSE <<"Err">>)
    /\ handle' = [handle EXCEPT ![idx] = "joined"]
    /\ idx' = idx + 1
    /\ UNCHANGED <<config, nBuilders, pc, worker, retval, others, path, proc>>
    /\ UNCHANGED <<spawned, built, invoked, error>>
    /\ UNCHANGED <<ty, fVars, aVars, mVars>>

\* WorkerGuards::join returns the collected Vec; self goes out of scope: drop()
\* finds guards drained, then the fields are dropped, others among them
WJoinReturn ==
    /\ pc = "join"
    /\ idx > nBuilders
    /\ pc' = "done"
    /\ others' = "released"
    /\ UNCHANGED <<config, nBuilders, idx, worker, retval, handle, results, path, proc>>
    /\ UNCHANGED <<spawned, built, invoked, error>>
    /\ UNCHANGED <<ty, fVars, aVars, mVars>>

\* the caller lets the WorkerGuards go out of scope without join
WDropCall ==
    /\ pc = "guards"
    /\ pc' = "drop"
    /\ idx' = 1
    /\ path' = "drop"
    /\ UNCHANGED <<config, nBuilders, worker, retval, handle, others, results, proc>>
    /\ UNCHANGED <<spawned, built, invoked, error>>
    /\ UNCHANGED <<ty, fVars, aVars, mVars>>

\* Drop for WorkerGuards: guard.join() on a worker that returned
WDropStep ==
    /\ pc = "drop"
    /\ idx <= nBuilders
    /\ worker[idx] = "returned"
    /\ handle' = [handle EXCEPT ![idx] = "joined"]
    /\ idx' = idx + 1
    /\ UNCHANGED <<config, nBuilders, pc, worker, retval, others, results, path, proc>>
    /\ UNCHANGED <<spawned, built, invoked, error>>
    /\ UNCHANGED <<ty, fVars, aVars, mVars>>

\* Drop for WorkerGuards: guard.join() on a worker that panicked gives Err and
\* expect("Worker panic") panics. Unwinding drops the Drain, whose remaining
\* JoinHandles detach, and then the fields, others among them.
WDropPanicUnwind ==
    /\ pc = "drop"
    /\ idx <= nBuilders
    /\ worker[idx] = "panicked"
    /\ handle' = [i \in Workers |-> IF i = idx THEN "joined" ELSE DropHandles[i]]
    /\ others' = "released"
    /\ pc' = "unwound"
    /\ UNCHANGED <<config, nBuilders, idx, worker, retval, results, path, proc>>
    /\ UNCHANGED <<spawned, built, invoked, error>>
    /\ UNCHANGED <<ty, fVars, aVars, mVars>>

\* Drop for WorkerGuards: the same panic where panics abort (panic = "abort",
\* or the drop runs while the thread is already unwinding): the process ends
\* and takes the running workers with it
WDropPanicAbort ==
    /\ pc = "drop"
    /\ idx <= nBuilders
    /\ worker[idx] = "panicked"
    /\ handle' = [handle EXCEPT ![idx] = "joined"]
    /\ worker' = [i \in Workers |-> IF Live(i) THEN "killed" ELSE worker[i]]
    /\ proc' = "aborted"
    /\ pc' = "aborted"
    /\ UNCHANGED <<config, nBuilders, idx, retval, others, results, path>>
    /\ UNCHANGED <<spawned, built, invoked, error>>
    /\ UNCHANGED <<ty, fVars, aVars, mVars>>

\* Drop for WorkerGuards: drop() returns and the fields are dropped
WDropReturn ==
    /\ pc = "drop"
    /\ idx > nBuilders
    /\ pc' = "done"
    /\ others' = "released"
    /\ UNCHANGED <<config, nBuilders, idx, worker, retval, handle, results, path, proc>>
    /\ UNCHANGED <<spawned, built, invoked, error>>
    /\ UNCHANGED <<ty, fVars, aVars, mVars>>

----------------------------------------------------------------------------
(* Configuration::from_args *)

\* the first port of the addresses made up when no hostfile is given
BasePort == 2101

\* what matches.opt_str gives for an option that takes a value: None, or
\* Some(text) where the text is the decimal of a usize (ok) or is not
OptVals ==
    {[some |-> FALSE, ok |-> FALSE, val |-> 0], [some |-> TRUE, ok |-> FALSE, val |-> 0]}
        \cup {[some |-> TRUE, ok |-> TRUE, val |-> v] : v \in 0..MaxArg}

\* the -h option: None, or Some(path) of a file that cannot be opened or
\* read, or of a file with the given number of lines
HostVals ==
    {[some |-> FALSE, readable |-> FALSE, lines |-> 0], [some |-> TRUE, readable |-> FALSE, lines |-> 0]}
        \cup {[some |-> TRUE, readable |-> TRUE, lines |-> k] : k \in 0..MaxLines}

\* the command lines: parses tells whether getopts accepts the arguments
ArgVals == [parses : BOOLEAN, w : OptVals, p : OptVals, n : OptVals, h : HostVals, r : BOOLEAN]

\* matches.opt_str(..).map(|x| x.parse().unwrap_or(d)).unwrap_or(d)
opt_or(o, d) == IF o.some /\ o.ok THEN o.val ELSE d

threads_of(a) == opt_or(a.w, 1)
process_of(a) == opt_or(a.p, 0)
processes_of(a) == opt_or(a.n, 1)

Outcome(kind, threads, process, addresses, report) ==
    [kind |-> kind, threads |-> threads, process |-> process,
     addresses |-> addresses, report |-> report]

NotCalled == Outcome("none", 0, 0, <<>>, FALSE)
Panics == Outcome("panic", 0, 0, <<>>, FALSE)
ErrString == Outcome("Err", 0, 0, <<>>, FALSE)

\* reader.lines().take(processes), each line pushed
host_lines(h, processes) ==
    [i \in 1..(IF h.lines < processes THEN h.lines ELSE processes) |-> <<"line", i>>]

\* format!("localhost:{}", 2101 + index) for index in 0..processes
local_addresses(processes) == [i \in 1..processes |-> <<"localhost", BasePort + (i - 1)>>]

\* a from_args that looks at threads before it looks at processes
from_args_threads_first(a) ==
    IF ~a.parses THEN ErrString
    ELSE IF ~(process_of(a) < processes_of(a)) THEN Panics
    ELSE IF threads_of(a) > 1 THEN Outcome("Process", threads_of(a), 0, <<>>, FALSE)
    ELSE IF processes_of(a) > 1
    THEN IF a.h.some
         THEN IF ~a.h.readable \/ Len(host_lines(a.h, processes_of(a))) < processes_of(a)
              THEN Panics
              ELSE Outcome("Cluster", threads_of(a), process_of(a),
                           host_lines(a.h, processes_of(a)), a.r)
         ELSE Outcome("Cluster", threads_of(a), process_of(a),
                      local_addresses(processes_of(a)), a.r)
    ELSE Outcome("Thread", 0, 0, <<>>, FALSE)

from_args(a) ==
    IF ~a.parses THEN ErrString
    ELSE LET threads == threads_of(a)
             process == process_of(a)
             processes == processes_of(a)
             report == a.r
         IN  IF ~(process < processes) THEN Panics
             ELSE IF processes > 1
             THEN IF a.h.some
                  THEN IF ~a.h.readable THEN Panics
                       ELSE LET addresses == host_lines(a.h, processes)
                            IN  IF Len(addresses) < processes THEN Panics
                                ELSE Outcome("Cluster", threads, process, addresses, report)
                  ELSE Outcome("Cluster", threads, process, local_addresses(processes), report)
             ELSE IF threads > 1 THEN Outcome("Process", threads, 0, <<>>, FALSE)
             ELSE Outcome("Thread", 0, 0, <<>>, FALSE)

FromArgs ==
    /\ parsed = NotCalled
    /\ parsed' = from_args(args)
    /\ UNCHANGED <<ty, args, aVars, mVars, wVars>>

----------------------------------------------------------------------------
(* Idle values of the parts a specification does not exercise *)

AIdle ==
    /\ elements = <<>>
    /\ aLast = "new"
    /\ s1on = FALSE
    /\ tracking = FALSE
    /\ AInitGhost

MIdle ==
    /\ dirty = 0
    /\ updates = <<>>
    /\ frontier = <<>>
    /\ frontier_temp = <<>>
    /\ mLast = "new"
    /\ mPre = <<>>
    /\ mActs = <<>>
    /\ mRebuilt = FALSE
    /\ mPending = FALSE

WIdle ==
    /\ config = "Thread"
    /\ nBuilders = 0
    /\ pc = "idle"
    /\ idx = 0
    /\ worker = <<>>
    /\ retval = <<>>
    /\ handle = <<>>
    /\ others = "none"
    /\ results = <<>>
    /\ path = "none"
    /\ proc = "alive"
    /\ spawned = <<>>
    /\ built = <<>>
    /\ invoked = <<>>
    /\ error = "none"

FIdle ==
    /\ args = [parses |-> TRUE, w |-> [some |-> FALSE, ok |-> FALSE, val |-> 0],
                p |-> [some |-> FALSE, ok |-> FALSE, val |-> 0],
                n |-> [some |-> FALSE, ok |-> FALSE, val |-> 0],
                h |-> [some |-> FALSE, readable |-> FALSE, lines |-> 0], r |-> FALSE]
    /\ parsed = NotCalled

----------------------------------------------------------------------------
(* Specification of Antichain<T> *)

InitAntichain ==
    /\ ty \in Types
    /\ (ANew \/ AFromElem)
    /\ MIdle
    /\ WIdle
    /\ FIdle

NextAntichain ==
    \/ AInsert
    \/ AClear
    \/ ASort

SpecAntichain == InitAntichain /\ [][NextAntichain]_vars

----------------------------------------------------------------------------
(* Specification of MutableAntichain<T> *)

InitMutable ==
    /\ ty \in Types
    /\ AIdle
    /\ (MNew \/ MNewBottom)
    /\ WIdle
    /\ FIdle

NextMutable ==
    \/ MClear
    \/ MEmpty
    \/ MUpdateDirty
    \/ MUpdateIterAnd

SpecMutable == InitMutable /\ [][NextMutable]_vars

----------------------------------------------------------------------------
(* Specification of initialize / initialize_from / WorkerGuards *)

InitWorkers ==
    /\ ty = "u64"
    /\ AIdle
    /\ MIdle
    /\ FIdle
    /\ config \in {"Thread", "Process", "Cluster", "Builders"}
    /\ nBuilders \in 0..MaxWorkers
    /\ config = "Thread" => nBuilders = 1
    /\ config \in {"Process", "Cluster"} => nBuilders >= 1
    /\ pc = IF config = "Builders" THEN "spawn" ELSE "create"
    /\ others = IF config = "Builders" THEN "held" ELSE "none"
    /\ idx = 1
    /\ worker = [i \in 1..nBuilders |-> "unspawned"]
    /\ retval = [i \in 1..nBuilders |-> "none"]
    /\ handle = [i \in 1..nBuilders |-> "none"]
    /\ results = <<>>
    /\ path = "none"
    /\ proc = "alive"
    /\ spawned = <<>>
    /\ built = [i \in 1..nBuilders |-> <<>>]
    /\ invoked = [i \in 1..nBuilders |-> <<>>]
    /\ error = "none"

NextWorkers ==
    \/ WCreate
    \/ WCreateFail
    \/ WSpawn
    \/ WSpawnFail
    \/ WSpawnDone
    \/ WBuild
    \/ WReturn
    \/ WPanic
    \/ WJoinCall
    \/ WJoinStep
    \/ WJoinReturn
    \/ WDropCall
    \/ WDropStep
    \/ WDropPanicUnwind
    \/ WDropPanicAbort
    \/ WDropReturn

SpecWorkers == InitWorkers /\ [][NextWorkers]_vars

----------------------------------------------------------------------------
(* Specification of Configuration::from_args *)

InitArgs ==
    /\ ty = "u64"
    /\ AIdle
    /\ MIdle
    /\ WIdle
    /\ args \in ArgVals
    /\ parsed = NotCalled

NextArgs == FromArgs

SpecArgs == InitArgs /\ [][NextArgs]_vars

----------------------------------------------------------------------------
(* Properties of Antichain<T>, checked under SpecAntichain *)

\* C3: in every state reachable from new() or from_elem(e) by insert and clear
\* (and sort), no two distinct stored elements x, y satisfy less_equal(x, y),
\* and the storage holds no element twice.
C3_MutuallyIncomparable ==
    \A i, j \in 1..Len(elements) :
        i # j => /\ elements[i] # elements[j]
                 /\ ~less_equal(elements[i], elements[j])

\* an insert has just evicted one of two stored elements and kept the other
C3_Witness ==
    /\ aLast = "insert"
    /\ aRet = TRUE
    /\ Len(aPrev) = 2
    /\ Len(elements) = 2

\* C4: insert(e) returns false and leaves the elements unchanged exactly when
\* some stored x satisfies less_equal(x, e); otherwise it returns true and the
\* elements afterwards are the stored x with ~less_equal(e, x), in their
\* previous order, followed by e.
C4_InsertContract ==
    aLast = "insert" =>
        LET dominated == \E x \in Range(aPrev) : less_equal(x, aElem)
            kept == SelectSeq(aPrev, LAMBDA x : ~less_equal(aElem, x))
        IN  /\ dominated => (aRet = FALSE /\ elements = aPrev)
            /\ ~dominated => (aRet = TRUE /\ elements = kept \o <<aElem>>)
            /\ (aRet = FALSE) <=> dominated

\* an insert of an element that is already stored has returned false
C4_Witness ==
    /\ aLast = "insert"
    /\ aRet = FALSE
    /\ aElem \in Range(aPrev)
    /\ Len(aPrev) = 2

\* the elements scenario S1 expects after each step
S1After == <<{3}, {1}, {1}, {1}, {1}>>

\* C5 as stated: inserting 3, 1, 2, 5, 4 into an empty Antichain<u64> leaves
\* {3}, {1}, {1}, {1}, {1}, and every insert after the first returns false.
C5_Original ==
    s1on =>
        \A k \in 1..Len(s1) :
            /\ s1[k].after = S1After[k]
            /\ k > 1 => s1[k].ret = FALSE

\* C5, amended: inserting 3, 1, 2, 5, 4 into an empty Antichain<u64> leaves
\* {3}, {1}, {1}, {1}, {1}; the inserts of 3 and of 1 return true (1 evicts 3)
\* and the inserts of 2, 5 and 4 return false.
C5_Scenario ==
    s1on =>
        \A k \in 1..Len(s1) :
            /\ s1[k].after = S1After[k]
            /\ s1[k].ret = (k <= 2)

\* the five inserts of S1 have all been made
C5_Witness ==
    /\ s1on
    /\ Len(s1) = Len(S1Script)
    /\ aLast = "insert"

----------------------------------------------------------------------------
(* Properties of MutableAntichain<T>, checked under SpecMutable *)

\* the timestamps with positive count
Positive == {t \in Stamps : count_for(Self, t) > 0}

\* the minimal elements of Positive under the partial order
MinimalPositive == {t \in Positive : ~\E u \in Positive : less_than(u, t)}

\* C1: whenever update_iter or update_iter_and returns, having rebuilt or not,
\* the set of elements of frontier() is the set of minimal elements of
\* {t : count_for(t) > 0}.
C1_FrontierIsMinimal ==
    mLast = "update_iter_and" => Range(frontier) = MinimalPositive

\* a call that did not rebuild has returned with a two-element frontier and an
\* entry beyond it that was only appended
C1_Witness ==
    /\ mLast = "update_iter_and"
    /\ ~mRebuilt
    /\ Len(frontier) = 2
    /\ Len(updates) = 3

\* C2: the callbacks of an update_iter_and call are exactly one action(t, -1)
\* for each t of the frontier before the call that the frontier after it lacks,
\* and one action(t, +1) for each t of the frontier after it that the frontier
\* before it lacks; there is none when the frontier is the same.
C2_ActionDeltas ==
    mLast = "update_iter_and" =>
        LET removed == {<<t, -1>> : t \in Range(mPre) \ Range(frontier)}
            added == {<<t, 1>> : t \in Range(frontier) \ Range(mPre)}
        IN  /\ Range(mActs) = removed \cup added
            /\ Len(mActs) = Cardinality(removed \cup added)
            /\ Range(mPre) = Range(frontier) => mActs = <<>>

\* a rebuild replaced a two-element frontier by one new element: two removals
\* and one addition were reported
C2_Witness ==
    /\ mLast = "update_iter_and"
    /\ mRebuilt
    /\ Len(mPre) = 2
    /\ Len(frontier) = 1
    /\ Len(mActs) = 3

\* C9: frontier, is_empty, less_than and less_equal fail their debug assertion
\* exactly when an update_dirty, or an empty() on non-empty updates, has not yet
\* been followed by update_iter, update_iter_and or clear; they never fail
\* after new, new_bottom, clear, update_iter or update_iter_and.
C9_QueryAssertion ==
    /\ debug_assert_fails(Self) <=> mPending
    /\ mLast \in {"new", "new_bottom", "clear", "update_iter_and"}
           => ~debug_assert_fails(Self)
    /\ mLast = "update_dirty" => debug_assert_fails(Self)

\* empty() has just dirtied a clean MutableAntichain
C9_Witness ==
    /\ mLast = "empty"
    /\ dirty = Len(updates)
    /\ debug_assert_fails(Self)

----------------------------------------------------------------------------
(* Properties of initialize_from and WorkerGuards, checked under SpecWorkers *)

AllJoined == \A i \in Workers : handle[i] = "joined"

\* the WorkerGuards is gone: join returned, or the drop ended one way or another
GuardsGone == pc \in {"done", "unwound", "aborted"}

\* C6: dropping a WorkerGuards on which join was not called joins every worker
\* thread, also when workers panicked, and the background guard is released
\* only after all of them have been joined.
C6_DropJoinsAll ==
    path = "drop" =>
        /\ GuardsGone => AllJoined
        /\ others = "released" => AllJoined

\* C7: in every execution of initialize / initialize_from, also when a spawn
\* fails after earlier workers were spawned, the background guard is released
\* only after every worker thread that was spawned has exited.
C7_GuardOutlivesWorkers ==
    others = "released" => \A i \in Workers : ~Live(i)

\* the result join reports for worker i
ResultOf(i) == IF worker[i] = "returned" THEN <<"Ok", retval[i]>> ELSE <<"Err">>

\* C8: WorkerGuards::join joins every worker thread even when some panicked,
\* returns one result per worker in spawn order (Ok(value) of worker i's
\* closure, or Err if worker i panicked), and the background guard is released
\* only after all workers have been joined.
C8_JoinCollectsAll ==
    path = "join" =>
        /\ \A k \in 1..Len(results) : Finished(k) /\ results[k] = ResultOf(k)
        /\ GuardsGone => (pc = "done" /\ Len(results) = nBuilders /\ AllJoined)
        /\ others = "released" => (GuardsGone /\ AllJoined)

\* join has returned the results of a worker that panicked followed by one
\* that returned a value
C8_Witness ==
    /\ path = "join"
    /\ pc = "done"
    /\ nBuilders >= 2
    /\ worker[1] = "panicked"
    /\ worker[2] = "returned"
    /\ results[2] = <<"Ok", "b">>

\* C10: dropping or joining a WorkerGuards never terminates a worker early and
\* does not complete while any worker's closure is still running.
C10_WaitsForWorkers ==
    /\ \A i \in Workers : worker[i] # "killed"
    /\ (path \in {"join", "drop"} /\ GuardsGone) => \A i \in Workers : Finished(i)

----------------------------------------------------------------------------
(* initialize_from: one thread per builder *)

\* initialize_from has returned Ok(WorkerGuards)
ReturnedGuards == pc \in {"guards", "join", "drop", "done", "unwound", "aborted"}

C12_NetworkingFailureSpawnsNothing ==
    error = NetworkingError =>
        /\ config = "Cluster"
        /\ pc = "failed"
        /\ spawned = <<>>
        /\ \A i \in Workers : worker[i] = "unspawned" /\ handle[i] = "none"
                                                     /\ built[i] = <<>>
                                                     /\ invoked[i] = <<>>

C12_Witness ==
    /\ error = NetworkingError
    /\ pc = "failed"
    /\ nBuilders >= 2
    /\ \A i \in Workers : worker[i] = "unspawned"

----------------------------------------------------------------------------
(* Properties of Configuration::from_args, checked under SpecArgs *)

ReturnsConfiguration == parsed.kind \in {"Thread", "Process", "Cluster"}

\* the mode the sentence names for the parsed numbers
C13_StatedMode ==
    IF processes_of(args) = 1 /\ threads_of(args) > 1 THEN "Process"
    ELSE IF processes_of(args) = 1 /\ threads_of(args) = 1 THEN "Thread"
    ELSE "Cluster"

\* C13 as stated: the Configuration from_args returns is Process(threads) when
\* processes == 1 and threads > 1, Thread when both are 1, and Cluster in
\* every other case.
C13_Original ==
    ReturnsConfiguration =>
        /\ parsed.kind = C13_StatedMode
        /\ parsed.kind = "Process" => parsed.threads = threads_of(args)

\* the hostfile, if one is given, can be read and has a line per process
HostsSuffice ==
    args.h.some => args.h.readable /\ args.h.lines >= processes_of(args)

\* C13: from_args returns Err exactly when the options do not parse; it
\* returns Cluster exactly when they parse, process < processes,
\* processes > 1 and the addresses can be had; Process(threads) exactly when
\* they parse, process < processes == 1 and threads > 1; Thread exactly when
\* they parse, process < processes == 1 and threads <= 1 (threads 0
\* included); in every remaining case it panics.
C13_ModeSelection ==
    parsed # NotCalled =>
        LET threads == threads_of(args)
            process == process_of(args)
            processes == processes_of(args)
        IN  /\ parsed.kind = "Err" <=> ~args.parses
            /\ parsed.kind = "Cluster" <=>
                    args.parses /\ process < processes /\ processes > 1 /\ HostsSuffice
            /\ parsed.kind = "Process" <=>
                    args.parses /\ process < processes /\ processes = 1 /\ threads > 1
            /\ parsed.kind = "Thread" <=>
                    args.parses /\ process < processes /\ processes = 1 /\ threads <= 1
            /\ parsed.kind \in {"Err", "Cluster", "Process", "Thread", "panic"}
            /\ parsed.kind = "Process" => parsed.threads = threads
            /\ parsed.kind = "Cluster" =>
                    /\ parsed.threads = threads
                    /\ parsed.process = process
                    /\ Len(parsed.addresses) = processes

\* -w 0 with one process: a Thread configuration
C13_Witness ==
    /\ parsed.kind = "Thread"
    /\ args.w.some /\ args.w.ok /\ threads_of(args) = 0
    /\ processes_of(args) = 1

\* the options parse but name a process index that is not below processes, or
\* a hostfile with fewer lines than processes
ConfigurationError ==
    /\ args.parses
    /\ \/ ~(process_of(args) < processes_of(args))
       \/ /\ processes_of(args) > 1
          /\ args.h.some /\ args.h.readable /\ args.h.lines < processes_of(args)

\* C14: a configuration error (a hostfile with fewer than processes lines, or
\* a process index not below processes) makes from_args return Err(String);
\* it neither panics nor returns a Configuration.
C14_ConfigurationErrorIsErr ==
    (parsed # NotCalled /\ ConfigurationError) => parsed.kind = "Err"

----------------------------------------------------------------------------
(* Further properties of MutableAntichain<T>, checked under SpecMutable *)

\* C15: from every reachable state, empty() followed by update_iter_and with
\* an empty batch leaves the frontier empty and count_for(t) = 0 for every t,
\* and the callbacks made are exactly one action(f, -1) for each element f of
\* the frontier as it stood before empty(), and no action(_, +1).
C15_EmptyRetractsFrontier ==
    LET r == update_iter_and(empty(Self), <<>>)
    IN  /\ r.m.frontier = <<>>
        /\ r.m.dirty = 0
        /\ \A t \in Stamps : count_for(r.m, t) = 0
        /\ Len(r.acts) = Len(frontier)
        /\ Range(r.acts) = {<<f, -1>> : f \in Range(frontier)}

C15_Witness ==
    /\ mLast = "empty"
    /\ Len(frontier) = 2
    /\ LET r == update_iter_and(Self, <<>>)
       IN  r.rebuilt /\ Len(r.acts) = 2 /\ r.m.frontier = <<>> /\ r.m.updates = <<>>

\* C16: clear() called in any state, clean or dirty, gives the state new()
\* gives: dirty 0, frontier empty, count_for(t) = 0 for every t; and the
\* update_iter_and that follows a clear() reports changes against the empty
\* frontier: every callback is an action(t, +1) for an element of the new
\* frontier, and none is an action(_, -1).
C16_ClearIsNew ==
    /\ clear(Self) = new
    /\ clear(Self).dirty = 0 /\ clear(Self).frontier = <<>>
    /\ \A t \in Stamps : count_for(clear(Self), t) = 0
    /\ mLast = "clear" =>
            /\ Self = new
            /\ \A batch \in Batches :
                    LET r == update_iter_and(Self, batch)
                    IN  /\ \A k \in 1..Len(r.acts) : r.acts[k][2] = 1
                        /\ Len(r.acts) = Len(r.m.frontier)
                        /\ {a[1] : a \in Range(r.acts)} = Range(r.m.frontier)

C16_Witness ==
    /\ dirty > 0
    /\ Len(frontier) = 2
    /\ clear(Self) = new
    /\ LET r == update_iter_and(clear(Self), <<<<frontier[1], 1>>>>)
       IN  r.acts = <<<<frontier[1], 1>>>>

\* C17: in every clean state less_equal(t) holds exactly when some time with
\* a positive count is less_equal to t, less_than(t) exactly when some time
\* with a positive count is strictly less than t, and is_empty() exactly
\* when no time has a positive count.
C17_QueriesMatchCounts ==
    dirty = 0 =>
        /\ \A t \in Stamps :
            /\ frontier_less_equal(Self, t) <=>
                    (\E t2 \in Stamps : count_for(Self, t2) > 0 /\ less_equal(t2, t))
            /\ frontier_less_than(Self, t) <=>
                    (\E t2 \in Stamps : count_for(Self, t2) > 0 /\ less_than(t2, t))
        /\ is_empty(Self) <=> ~(\E t2 \in Stamps : count_for(Self, t2) > 0)

C17_Witness ==
    /\ dirty = 0
    /\ mLast = "update_iter_and"
    /\ Len(frontier) = 2
    /\ \E t \in Stamps : frontier_less_equal(Self, t) /\ ~frontier_less_than(Self, t)
    /\ \E t \in Stamps : frontier_less_than(Self, t)
    /\ ~is_empty(Self)

\* the claim's wording of an entry that can be ignored against frontier f
SafelyIgnorable(f, t, d) ==
    \/ \E i \in 1..Len(f) : less_than(f[i], t)
    \/ d < 0 /\ ~(\E i \in 1..Len(f) : less_equal(f[i], t))

\* C18: update_iter_and rebuilds exactly when some entry of the dirty suffix
\* (the entries update_dirty and empty left, followed by the batch) cannot be
\* ignored against the frontier at call entry; whether it rebuilds or not,
\* dirty is 0 when it returns.
C18_RebuildExactlyWhenNeeded ==
    \A batch \in Batches :
        LET u == updates \o batch
            n == dirty + Len(batch)
            r == update_iter_and(Self, batch)
        IN  /\ r.m.dirty = 0
            /\ r.rebuilt <=>
                    (\E k \in (Len(u) - n + 1)..Len(u) : ~SafelyIgnorable(frontier, u[k][1], u[k][2]))

C18_Witness ==
    /\ dirty > 0
    /\ \E batch \in Batches : batch # <<>> /\ ~update_iter_and(Self, batch).rebuilt
    /\ \E batch \in Batches : batch # <<>> /\ update_iter_and(Self, batch).rebuilt
                                            /\ ~update_iter_and(Self, <<>>).rebuilt

\* C19: an update_iter_and that needs no rebuild makes no callback, leaves
\* the frontier as it was, and leaves updates as its previous contents
\* followed by the batch entries in order, duplicates and zero-sum pairs kept.
C19_NoRebuildOnlyAppends ==
    \A batch \in Batches :
        LET r == update_iter_and(Self, batch)
        IN  ~r.rebuilt =>
                /\ r.acts = <<>>
                /\ r.m.frontier = frontier
                /\ r.m.updates = updates \o batch

C19_Witness ==
    /\ mLast = "update_iter_and"
    /\ ~mRebuilt
    /\ mActs = <<>>
    /\ frontier = mPre
    /\ Len(frontier) = 1
    /\ Len(updates) = 3
    /\ updates[2][1] = updates[3][1]
    /\ updates[2][2] = 1 /\ updates[3][2] = -1

StrictlyAscending(u) ==
    \A i \in 1..(Len(u) - 1) : ord_le(u[i][1], u[i + 1][1]) /\ u[i][1] # u[i + 1][1]

\* C20: a rebuild leaves updates with strictly ascending timestamps under the
\* total order and with no entry of delta 0, and count_for(t) after an
\* update_iter call is count_for(t) before it plus the batch's deltas for t.
C20_RebuildConsolidates ==
    \A batch \in Batches :
        LET r == update_iter_and(Self, batch)
        IN  /\ r.rebuilt =>
                /\ StrictlyAscending(r.m.updates)
                /\ \A i \in 1..Len(r.m.updates) : r.m.updates[i][2] # 0
            /\ \A t \in Stamps :
                    count_for(r.m, t) = count_for(Self, t) + SumDeltas(batch, t)

C20_Witness ==
    /\ mLast = "update_iter_and"
    /\ mRebuilt
    /\ Len(updates) = 2
    /\ StrictlyAscending(updates)
    /\ \E t \in Stamps : count_for(Self, t) = 2

\* C21: within one update_iter_and call every action(t, -1) is made before
\* every action(t, +1), and no timestamp is passed to action twice.
C21_RemovalsBeforeAdditions ==
    mLast = "update_iter_and" =>
        /\ \A i, j \in 1..Len(mActs) : (mActs[i][2] = 1 /\ mActs[j][2] = -1) => j < i
        /\ \A i, j \in 1..Len(mActs) : i # j => mActs[i][1] # mActs[j][1]
        /\ \A i \in 1..Len(mActs) : mActs[i][2] \in {-1, 1}

\* a call reported a removal and then two additions
C21_Witness ==
    /\ mLast = "update_iter_and"
    /\ Len(mActs) = 3
    /\ mActs[1][2] = -1
    /\ mActs[2][2] = 1
    /\ mActs[3][2] = 1

\* the batch applied one entry at a time with update_dirty
RECURSIVE apply_dirty(_, _)
apply_dirty(m, batch) ==
    IF batch = <<>> THEN m
    ELSE apply_dirty(update_dirty(m, Head(batch)[1], Head(batch)[2]), Tail(batch))

\* C22: update_dirty only appends its entry and increments dirty, leaving the
\* frontier and the earlier entries as they are; a batch applied entry by
\* entry with update_dirty and followed by update_iter_and with an empty batch
\* gives the same updates, frontier and dirty, and the same callbacks in the
\* same order, as one update_iter_and call with that batch from the same state.
C22_DirtyThenFlushIsBatch ==
    /\ \A e \in Entries :
            LET d == update_dirty(Self, e[1], e[2])
            IN  /\ d.updates = Append(updates, e)
                /\ d.dirty = dirty + 1
                /\ d.frontier = frontier
    /\ \A batch \in Batches :
            LET one == update_iter_and(apply_dirty(Self, batch), <<>>)
                all == update_iter_and(Self, batch)
            IN  /\ one.m = all.m
                /\ one.acts = all.acts
                /\ one.rebuilt = all.rebuilt

\* two update_dirty calls are pending, and flushing them changes the frontier
C22_Witness ==
    /\ mLast = "update_dirty"
    /\ dirty = 2
    /\ Len(updates) = 3
    /\ LET r == update_iter_and(Self, <<>>)
       IN  /\ r.rebuilt
           /\ r.acts # <<>>
           /\ r = update_iter_and([Self EXCEPT !.updates = SubSeq(updates, 1, 1), !.dirty = 0],
                                   SubSeq(updates, 2, 3))

\* C24: in every clean state the frontier is strictly ascending under Ord, so
\* the frontier sequence is determined by the set of minimal positive-count
\* timestamps alone: two MutableAntichains with the same such set have
\* element-wise equal frontier() views without sorting.
C24_FrontierAscending ==
    dirty = 0 =>
        /\ \A i \in 1..(Len(frontier) - 1) :
                ord_le(frontier[i], frontier[i + 1]) /\ frontier[i] # frontier[i + 1]
        /\ Range(frontier) = MinimalPositive
        /\ Len(frontier) = Cardinality(MinimalPositive)

\* a rebuild of entries given out of order built a two-element frontier
C24_Witness ==
    /\ dirty = 0
    /\ mLast = "update_iter_and"
    /\ mRebuilt
    /\ mPre = <<>>
    /\ Len(frontier) = 2
    /\ Len(updates) = 2
    /\ mActs = <<<<frontier[1], 1>>, <<frontier[2], 1>>>>

\* C25: in every reachable state 0 <= dirty <= len(updates), so the index
\* len(updates) - dirty of the scan in update_iter_and stays within updates
\* for whatever batch is pushed; and frontier_temp is empty between
\* operations.
C25_DirtyWithinUpdates ==
    /\ 0 <= dirty
    /\ dirty <= Len(updates)
    /\ frontier_temp = <<>>
    /\ \A n \in 0..(MaxUpdates - Len(updates)) :
            \A d \in 1..(dirty + n) :
                (Len(updates) + n) - d \in 0..(Len(updates) + n - 1)

\* some but not all entries of updates are pending
C25_Witness ==
    /\ dirty > 0
    /\ dirty < Len(updates)
    /\ mLast = "update_dirty"
    /\ frontier # <<>>

----------------------------------------------------------------------------
(* A further property of Antichain<T>, checked under SpecAntichain *)

\* the minimal elements of the values inserted so far
MinimalInserted == {x \in inserted : ~(\E y \in inserted : less_than(y, x))}

\* C23: after any sequence of inserts into an empty Antichain, with no clear
\* in between, the stored elements are as a set the minimal elements of all
\* the values inserted, whatever the order of the inserts; and less_equal(t)
\* holds exactly when some inserted value is less_equal to t.
C23_ElementsAreMinimalInserted ==
    tracking =>
        /\ Range(elements) = MinimalInserted
        /\ Len(elements) = Cardinality(MinimalInserted)
        /\ \A t \in Elems :
                elements_less_equal(elements, t) <=> (\E v \in inserted : less_equal(v, t))

\* four distinct values were inserted, the last one evicting a stored
\* element, and two of them are stored
C23_Witness ==
    /\ tracking
    /\ aLast = "insert"
    /\ aRet = TRUE
    /\ Cardinality(inserted) = 4
    /\ Len(elements) = 2
    /\ Len(aPrev) = 2
    /\ aElem \in Range(elements)

====
